---- MODULE Spec2Model ----
(***************************************************************************)
(* Model of backend/backend_app.py: a Flask service that keeps blog posts  *)
(* in the module-level list POSTS and serves five routes on it.            *)
(*                                                                         *)
(* Python values are records [kind, val].  A str is the sequence of its    *)
(* character codes, so that str.lower(), the ordering of str and the `in`  *)
(* operator are computed and not assumed.                                  *)
(***************************************************************************)
EXTENDS Integers, Sequences, FiniteSets

\* ------------------------------------------------------------------ bounds

\* Largest id a path parameter carries and a Create may assign.
MaxId == 4
\* Number of request threads that may be inside create_post at once.
MaxThreads == 2

\* ---------------------------------------------------------- Python values

Str(s) == [kind |-> "str", val |-> s]
Num(n) == [kind |-> "num", val |-> <<n>>]
None == [kind |-> "none", val |-> <<>>]
\* Marks a key that the JSON object of a request body does not hold.
Absent == [kind |-> "absent", val |-> <<>>]

\* bool(v), the truth value Python gives `not v` and `if v`: a str is true
\* when not empty, a number when not 0, None never.
Truthy(v) ==
    CASE v.kind = "str" -> Len(v.val) > 0
      [] v.kind = "num" -> v.val[1] # 0
      [] OTHER -> FALSE

\* hasattr(v, "lower"): only str has the method; on the rest the call raises
\* AttributeError.
HasLower(v) == v.kind = "str"

lowerChar(c) == IF c \in 65..90 THEN c + 32 ELSE c

\* str.lower() on ASCII text.
lower(s) == [i \in 1..Len(s) |-> lowerChar(s[i])]

\* a < b on str: lexicographic by code point.
StrLess(a, b) ==
    \E k \in 1..(Len(b)) :
        /\ \A j \in 1..(k - 1) : j <= Len(a) /\ a[j] = b[j]
        /\ \/ k = Len(a) + 1
           \/ k <= Len(a) /\ a[k] < b[k]

\* q in s on str: q is a contiguous part of s.
StrIn(q, s) ==
    \E i \in 0..(Len(s) - Len(q)) : SubSeq(s, i + 1, i + Len(q)) = q

\* dict.get(key): None for a key the dict does not hold.
Get(data, key) == IF data[key] = Absent THEN None ELSE data[key]

\* A slip for GetDefault: `data.get(key) or default`, which keeps the old
\* value also when the key is present with an empty value.
GetDefaultIfTruthy(data, key, default) ==
    IF Truthy(Get(data, key)) THEN data[key] ELSE default

\* dict.get(key, default).
GetDefault(data, key, default) == IF data[key] = Absent THEN default ELSE data[key]

\* request.args.get(name, default).
ArgGet(arg, default) == IF arg = None THEN default ELSE arg

\* ------------------------------------------------------------- the store

Post(id, title, content) == [id |-> id, title |-> title, content |-> content]

SeedPosts ==
    << Post(1, Str(<<70, 105, 114, 115, 116, 32, 112, 111, 115, 116>>),
               Str(<<84, 104, 105, 115, 32, 105, 115, 32, 116, 104, 101, 32, 102,
                     105, 114, 115, 116, 32, 112, 111, 115, 116, 46>>)),
       Post(2, Str(<<83, 101, 99, 111, 110, 100, 32, 112, 111, 115, 116>>),
               Str(<<84, 104, 105, 115, 32, 105, 115, 32, 116, 104, 101, 32, 115,
                     101, 99, 111, 110, 100, 32, 112, 111, 115, 116, 46>>)),
       Post(3, Str(<<84, 104, 105, 114, 100, 32, 112, 111, 115, 116>>),
               Str(<<84, 104, 105, 115, 32, 105, 115, 32, 116, 104, 101, 32, 116,
                     104, 105, 114, 100, 32, 112, 111, 115, 116, 46>>)) >>

\* "title", "content", "asc", "desc" as str values.
TITLE == <<116, 105, 116, 108, 101>>
CONTENT == <<99, 111, 110, 116, 101, 110, 116>>
ASC == <<97, 115, 99>>
DESC == <<100, 101, 115, 99>>

VARIABLES
    POSTS,       \* the module-level list of posts
    request,     \* the request handled last
    response,    \* the answer it got: status and JSON body
    before,      \* POSTS when that request arrived
    deleted_low, \* history: ids a Delete removed while a higher id was stored
    threads      \* per request thread inside create_post: pc and local new_post

vars == <<POSTS, request, response, before, deleted_low, threads>>

Ids(posts) == {posts[i].id : i \in 1..Len(posts)}

MaxOf(S) == CHOOSE m \in S : \A x \in S : x <= m

\* next((post for post in posts if post["id"] == id), None): index of the
\* first post with the id, 0 for None.
FirstWithId(posts, id) ==
    IF id \in Ids(posts)
    THEN CHOOSE i \in 1..Len(posts) :
            /\ posts[i].id = id
            /\ \A j \in 1..(i - 1) : posts[j].id # id
    ELSE 0

\* A slip for Remove: the last element is moved into the freed place.
RemoveSwap(posts, i) ==
    [j \in 1..(Len(posts) - 1) |-> IF j = i THEN posts[Len(posts)] ELSE posts[j]]

\* list.remove(posts[i]): drops the first element equal to posts[i].
Remove(posts, i) ==
    LET k == CHOOSE k \in 1..Len(posts) :
                /\ posts[k] = posts[i]
                /\ \A j \in 1..(k - 1) : posts[j] # posts[i]
    IN [j \in 1..(Len(posts) - 1) |-> IF j < k THEN posts[j] ELSE posts[j + 1]]

\* A slip for NewId: len(POSTS) + 1.
NewIdByLength(posts) == Len(posts) + 1

\* A slip for NewId: the id after that of the last post of the list.
NewIdAfterLast(posts) == IF Len(posts) > 0 THEN posts[Len(posts)].id + 1 ELSE 1

\* max(post["id"] for post in POSTS) + 1 if POSTS else 1
NewId(posts) == IF Len(posts) > 0 THEN MaxOf(Ids(posts)) + 1 ELSE 1

\* key=lambda post: post[sort_by].lower()
SortKey(post, sort_by) == lower(post[sort_by].val)

\* The key function raises on a post whose field has no lower().
SortRaises(posts, sort_by) ==
    \E i \in 1..Len(posts) : ~HasLower(posts[i][sort_by])

\* list.sort(key=..., reverse=...): stable, and with reverse=True elements
\* of equal key keep their original order too.  Rank(i) is the place element
\* i takes.
Rank(posts, sort_by, reverse, i) ==
    1 + Cardinality({j \in 1..Len(posts) :
            LET ki == SortKey(posts[i], sort_by)
                kj == SortKey(posts[j], sort_by)
            IN \/ IF reverse THEN StrLess(ki, kj) ELSE StrLess(kj, ki)
               \/ kj = ki /\ j < i})

Sorted(posts, sort_by, reverse) ==
    [r \in 1..Len(posts) |->
        posts[CHOOSE i \in 1..Len(posts) : Rank(posts, sort_by, reverse, i) = r]]

\* The condition of the list comprehension of search_posts on one post:
\* "raise" when a lower() of a non-str field is evaluated.
SearchCond(post, title_query, content_query) ==
    IF Len(title_query) > 0 /\ ~HasLower(post.title) THEN "raise"
    ELSE IF Len(title_query) > 0 /\ ~StrIn(title_query, lower(post.title.val))
    THEN "no"
    ELSE IF Len(content_query) > 0 /\ ~HasLower(post.content) THEN "raise"
    ELSE IF Len(content_query) > 0 /\ ~StrIn(content_query, lower(post.content.val))
    THEN "no"
    ELSE "yes"

RECURSIVE Filter(_, _, _)
Filter(posts, title_query, content_query) ==
    IF posts = <<>> THEN <<>>
    ELSE LET rest == Filter(Tail(posts), title_query, content_query)
         IN IF SearchCond(Head(posts), title_query, content_query) = "yes"
            THEN <<Head(posts)>> \o rest
            ELSE rest

\* ------------------------------------------------------- request inputs

PathIds == 1..MaxId

\* The id of the Update requests followed.
UpdateIds == {2}

\* ?sort= : missing, empty, "title", "content", "id"
SortArgs == {None, Str(<<>>), Str(TITLE), Str(CONTENT), Str(<<105, 100>>)}

\* ?direction= : missing, "DESC", "up"
DirectionArgs == {None, Str(<<68, 69, 83, 67>>), Str(<<117, 112>>)}

\* ?title= : missing, "IR";  ?content= : missing, "D POST"
TitleQueries == {None, Str(<<73, 82>>)}
ContentQueries == {None, Str(<<68, 32, 80, 79, 83, 84>>)}

\* JSON values of "title": key missing, "", "a"
TitleValues == {Absent, Str(<<>>), Str(<<97>>)}
\* JSON values of "content": key missing, "", 5
ContentValues == {Absent, Str(<<>>), Num(5)}

\* request.get_json(): a JSON object, or None for the JSON text null.
Bodies ==
    {[json |-> "object", title |-> t, content |-> c] :
        t \in TitleValues, c \in ContentValues}
    \cup {[json |-> "null", title |-> Absent, content |-> Absent]}

NoBody == [json |-> "none", title |-> Absent, content |-> Absent]

Request(op, id, a, b, data) ==
    [op |-> op, id |-> id, a |-> a, b |-> b, data |-> data]

Response(status, body) == [status |-> status, body |-> body]

NoPost == Post(0, None, None)

Init ==
    /\ POSTS = SeedPosts
    /\ request = Request("start", 0, None, None, NoBody)
    /\ response = Response(0, <<>>)
    /\ before = SeedPosts
    /\ deleted_low = {}
    /\ threads = [t \in 1..MaxThreads |-> [pc |-> "idle", data |-> NoBody, new_post |-> NoPost]]

\* ------------------------------------------------------------ handlers

\* A slip for get_posts: the direction is checked after the list is sorted.
get_posts_sort_first(sort_arg, direction_arg) ==
    LET sort_by == ArgGet(sort_arg, None)
        direction == lower(ArgGet(direction_arg, Str(ASC)).val)
        reverse == direction = DESC
    IN /\ request' = Request("list", 0, sort_arg, direction_arg, NoBody)
       /\ before' = POSTS
       /\ IF Truthy(sort_by) /\ sort_by.val \notin {TITLE, CONTENT}
          THEN /\ response' = Response(400, <<>>)
               /\ POSTS' = POSTS
          ELSE IF Truthy(sort_by)
          THEN LET field == IF sort_by.val = TITLE THEN "title" ELSE "content"
               IN IF SortRaises(POSTS, field)
                  THEN /\ response' = Response(500, <<>>)
                       /\ POSTS' = POSTS
                  ELSE /\ POSTS' = Sorted(POSTS, field, reverse)
                       /\ response' =
                            IF direction \notin {ASC, DESC}
                            THEN Response(400, <<>>) ELSE Response(200, POSTS')
          ELSE /\ response' =
                    IF direction \notin {ASC, DESC}
                    THEN Response(400, <<>>) ELSE Response(200, POSTS)
               /\ POSTS' = POSTS

\* GET /api/posts?sort=&direction=
get_posts(sort_arg, direction_arg) ==
    LET sort_by == ArgGet(sort_arg, None)
        direction == lower(ArgGet(direction_arg, Str(ASC)).val)
        reverse == direction = DESC
    IN /\ request' = Request("list", 0, sort_arg, direction_arg, NoBody)
       /\ before' = POSTS
       /\ IF Truthy(sort_by) /\ sort_by.val \notin {TITLE, CONTENT}
          THEN /\ response' = Response(400, <<>>)
               /\ POSTS' = POSTS
          ELSE IF direction \notin {ASC, DESC}
          THEN /\ response' = Response(400, <<>>)
               /\ POSTS' = POSTS
          ELSE IF Truthy(sort_by)
          THEN LET field == IF sort_by.val = TITLE THEN "title" ELSE "content"
               IN IF SortRaises(POSTS, field)
                  THEN \* the key function raises AttributeError: the list is as it was
                       /\ response' = Response(500, <<>>)
                       /\ POSTS' = POSTS
                  ELSE /\ POSTS' = Sorted(POSTS, field, reverse)
                       /\ response' = Response(200, POSTS')
          ELSE /\ response' = Response(200, POSTS)
               /\ POSTS' = POSTS

\* create_post, lines 47-58: the body is read and checked and new_post is
\* built from the list as it is now.  "raise", "reject" or the new post.
Validate(data) ==
    IF data.json = "null" THEN "raise"   \* None.get: AttributeError
    ELSE IF ~Truthy(Get(data, "title")) \/ ~Truthy(Get(data, "content"))
    THEN "reject"
    ELSE "ok"

\* POST /api/posts
create_post(data) ==
    /\ request' = Request("create", 0, None, None, data)
    /\ before' = POSTS
    /\ IF Validate(data) = "raise"
       THEN /\ response' = Response(500, <<>>)
            /\ POSTS' = POSTS
       ELSE IF Validate(data) = "reject"
       THEN /\ response' = Response(400, <<>>)
            /\ POSTS' = POSTS
       ELSE LET new_post == Post(NewId(POSTS), data.title, data.content)
            IN /\ new_post.id <= MaxId
               /\ POSTS' = Append(POSTS, new_post)
               /\ response' = Response(201, <<new_post>>)

\* DELETE /api/posts/<int:id>
delete_post(id) ==
    LET post_to_delete == FirstWithId(POSTS, id)
    IN /\ request' = Request("delete", id, None, None, NoBody)
       /\ before' = POSTS
       /\ IF post_to_delete # 0
          THEN /\ POSTS' = Remove(POSTS, post_to_delete)
               /\ response' = Response(200, <<>>)
          ELSE /\ response' = Response(404, <<>>)
               /\ POSTS' = POSTS

\* PUT /api/posts/<int:id>
update_post(id, data) ==
    LET post_to_update == FirstWithId(POSTS, id)
    IN /\ request' = Request("update", id, None, None, data)
       /\ before' = POSTS
       /\ IF post_to_update = 0
          THEN /\ response' = Response(404, <<>>)
               /\ POSTS' = POSTS
          ELSE IF data.json = "null"
          THEN \* None.get raises AttributeError before any assignment
               /\ response' = Response(500, <<>>)
               /\ POSTS' = POSTS
          ELSE LET old == POSTS[post_to_update]
                   new == [old EXCEPT
                             !.title = GetDefault(data, "title", old.title),
                             !.content = GetDefault(data, "content", old.content)]
               IN /\ POSTS' = [POSTS EXCEPT ![post_to_update] = new]
                  /\ response' = Response(200, <<new>>)

\* GET /api/posts/search?title=&content=
search_posts(title_arg, content_arg) ==
    LET title_query == lower(ArgGet(title_arg, Str(<<>>)).val)
        content_query == lower(ArgGet(content_arg, Str(<<>>)).val)
    IN /\ request' = Request("search", 0, title_arg, content_arg, NoBody)
       /\ before' = POSTS
       /\ POSTS' = POSTS
       /\ IF \E i \in 1..Len(POSTS) :
                SearchCond(POSTS[i], title_query, content_query) = "raise"
          THEN response' = Response(500, <<>>)
          ELSE response' = Response(200, Filter(POSTS, title_query, content_query))

\* ------------------------------------------- create_post on several threads

\* Lines 47-58 on thread t: a rejected request is answered at once; else the
\* thread holds its new_post, built from the list as it is now.
create_begin(t, data) ==
    /\ threads[t].pc = "idle"
    /\ IF Validate(data) = "ok"
       THEN LET new_post == Post(NewId(POSTS), data.title, data.content)
            IN /\ new_post.id <= MaxId
               /\ threads' = [threads EXCEPT
                                ![t] = [pc |-> "append", data |-> data,
                                        new_post |-> new_post]]
               /\ UNCHANGED <<POSTS, request, response, before>>
       ELSE /\ request' = Request("create", 0, None, None, data)
            /\ before' = POSTS
            /\ response' =
                 Response(IF Validate(data) = "raise" THEN 500 ELSE 400, <<>>)
            /\ UNCHANGED <<POSTS, threads>>

\* Lines 60-63 on thread t: the post built earlier is appended and returned.
create_finish(t) ==
    /\ threads[t].pc = "append"
    /\ request' = Request("create", 0, None, None, threads[t].data)
    /\ before' = POSTS
    /\ POSTS' = Append(POSTS, threads[t].new_post)
    /\ response' = Response(201, <<threads[t].new_post>>)
    /\ threads' = [threads EXCEPT
                     ![t] = [pc |-> "idle", data |-> NoBody, new_post |-> NoPost]]

\* --------------------------------------------------------- specifications

\* Notes the id of a successful Delete that left a higher id in the list.
RecordDelete ==
    deleted_low' =
        IF /\ request'.op = "delete"
           /\ response'.status = 200
           /\ \E x \in Ids(before') : x > request'.id
        THEN deleted_low \cup {request'.id}
        ELSE deleted_low

\* Requests handled one at a time, each handler from start to end.
Next ==
    \/ \E s \in SortArgs, d \in DirectionArgs :
          get_posts(s, d) /\ UNCHANGED <<deleted_low, threads>>
    \/ \E data \in Bodies :
          create_post(data) /\ UNCHANGED <<deleted_low, threads>>
    \/ \E id \in PathIds :
          delete_post(id) /\ UNCHANGED <<deleted_low, threads>>
    \/ \E id \in UpdateIds, data \in Bodies :
          update_post(id, data) /\ UNCHANGED <<deleted_low, threads>>
    \/ \E t \in TitleQueries, c \in ContentQueries :
          search_posts(t, c) /\ UNCHANGED <<deleted_low, threads>>

Spec == Init /\ [][Next]_vars

\* The same, with the history of Deletes kept.
NextHistory ==
    \/ \E s \in SortArgs, d \in DirectionArgs :
          get_posts(s, d) /\ RecordDelete /\ UNCHANGED threads
    \/ \E data \in Bodies :
          create_post(data) /\ RecordDelete /\ UNCHANGED threads
    \/ \E id \in PathIds :
          delete_post(id) /\ RecordDelete /\ UNCHANGED threads
    \/ \E id \in UpdateIds, data \in Bodies :
          update_post(id, data) /\ RecordDelete /\ UNCHANGED threads
    \/ \E t \in TitleQueries, c \in ContentQueries :
          search_posts(t, c) /\ RecordDelete /\ UNCHANGED threads

SpecHistory == Init /\ [][NextHistory]_vars

\* Create requests on threads that may be switched between building new_post
\* and appending it (the Flask development server runs one thread per
\* request); List, Delete and Search run between their steps.  Update, which
\* neither reads nor writes an id or the length of the list, is left out.
NextThreads ==
    \/ \E t \in 1..MaxThreads, data \in Bodies :
          create_begin(t, data) /\ UNCHANGED deleted_low
    \/ \E t \in 1..MaxThreads :
          create_finish(t) /\ UNCHANGED deleted_low
    \/ \E s \in SortArgs, d \in DirectionArgs :
          get_posts(s, d) /\ UNCHANGED <<deleted_low, threads>>
    \/ \E id \in PathIds :
          delete_post(id) /\ UNCHANGED <<deleted_low, threads>>
    \/ \E t \in TitleQueries, c \in ContentQueries :
          search_posts(t, c) /\ UNCHANGED <<deleted_low, threads>>

SpecThreads == Init /\ [][NextThreads]_vars

\* ------------------------------------------------------------------ claims

Created == request.op = "create" /\ response.status = 201
NewPost == response.body[1]

\* The number of times x occurs in the sequence s.
Count(s, x) == Cardinality({i \in 1..Len(s) : s[i] = x})

\* s without its k-th element.
Without(s, k) == [j \in 1..(Len(s) - 1) |-> IF j < k THEN s[j] ELSE s[j + 1]]

\* C1: with requests handled one at a time, no two posts of the collection
\* have the same id.
C1_UniqueIds ==
    \A i, j \in 1..Len(POSTS) : i # j => POSTS[i].id # POSTS[j].id

\* A Create answered 201 on a collection that had lost a seed post and still
\* held others.
C1_Witness ==
    /\ Created
    /\ Len(before) >= 2
    /\ Ids(before) # {1, 2, 3}

\* C2: a Create whose title and content are present and non-empty is
\* answered 201 with a post whose id is the largest stored id plus one (1 on
\* an empty collection); the post is appended last and the posts stored
\* before keep their places and fields.
C2_CreateAppendsMaxPlusOne ==
    (/\ request.op = "create"
     /\ request.data.json = "object"
     /\ request.data.title # Absent /\ Truthy(request.data.title)
     /\ request.data.content # Absent /\ Truthy(request.data.content))
    => /\ response.status = 201
       /\ Len(response.body) = 1
       /\ NewPost.title = request.data.title
       /\ NewPost.content = request.data.content
       /\ before = <<>> => NewPost.id = 1
       /\ before # <<>> =>
            /\ NewPost.id - 1 \in Ids(before)
            /\ \A x \in Ids(before) : x <= NewPost.id - 1
       /\ POSTS = before \o <<NewPost>>

\* A Create answered 201 on a collection whose last post did not hold the
\* largest id.
C2_Witness ==
    /\ Created
    /\ Len(before) >= 2
    /\ \E i \in 1..Len(before) : before[i].id > before[Len(before)].id
    /\ POSTS = before \o <<NewPost>>

\* A Create answered 201 with id 1 on the empty collection.
C2_WitnessEmpty == Created /\ before = <<>> /\ NewPost.id = 1

\* C3, as stated: a Create never assigns an id that a Delete removed, unless
\* the deleted post held the highest id when it was deleted.
C3_NeverReusedUnlessHighest ==
    Created => NewPost.id \notin deleted_low

\* C3, amended: a Create assigns an id that a Delete removed while a higher
\* id was stored only when no post with that id or a higher one is left in
\* the collection.
C3_ReusedOnlyAboveAll ==
    (Created /\ NewPost.id \in deleted_low)
    => \A x \in Ids(before) : x < NewPost.id

\* A Create that assigned an id removed earlier from below the maximum, to a
\* collection that still held posts.
C3_Witness ==
    /\ Created
    /\ NewPost.id \in deleted_low
    /\ before # <<>>

InvalidSort(a) == a # None /\ Len(a.val) > 0 /\ a.val \notin {TITLE, CONTENT}
InvalidDirection(b) == b # None /\ lower(b.val) \notin {ASC, DESC}

\* C4: a request answered with an error status leaves the collection as it
\* was; Create without a non-empty title and content is answered 400, List
\* with an invalid sort or an invalid direction 400, Delete and Update of an
\* id no post has 404.
C4_ErrorsLeaveCollection ==
    /\ response.status >= 400 => POSTS = before
    /\ (/\ request.op = "create"
        /\ request.data.json = "object"
        /\ \/ ~Truthy(request.data.title)
           \/ ~Truthy(request.data.content))
       => response.status = 400
    /\ (/\ request.op = "list"
        /\ InvalidSort(request.a) \/ InvalidDirection(request.b))
       => response.status = 400
    /\ (/\ request.op \in {"delete", "update"}
        /\ request.id \notin Ids(before))
       => response.status = 404

\* List with sort=title and an invalid direction answered 400 on a
\* collection that sorting by title would have reordered.
C4_Witness ==
    /\ request.op = "list"
    /\ request.a = Str(TITLE)
    /\ InvalidDirection(request.b)
    /\ response.status = 400
    /\ Len(before) >= 2
    /\ \A i \in 1..Len(before) : before[i].title.kind = "str"
    /\ StrLess(lower(before[2].title.val), lower(before[1].title.val))

\* C5: Delete of a stored id is answered 200 and removes that one post: the
\* collection is one shorter, holds no post with the id, and keeps the other
\* posts, their fields and their order.
C5_DeleteRemovesOne ==
    (request.op = "delete" /\ request.id \in Ids(before))
    => /\ response.status = 200
       /\ Len(POSTS) = Len(before) - 1
       /\ request.id \notin Ids(POSTS)
       /\ \E k \in 1..Len(before) :
            /\ before[k].id = request.id
            /\ POSTS = Without(before, k)

\* A Delete answered 200 that removed a post from between two others.
C5_Witness ==
    /\ request.op = "delete"
    /\ response.status = 200
    /\ \E k \in 2..(Len(before) - 1) : before[k].id = request.id

\* C6: Update of a stored id replaces title (content) by the value of the
\* body exactly when the body holds the key, an empty value included, and
\* keeps the old value otherwise; the id and the place of the post and all
\* other posts stay.
C6_UpdateReplacesPresentFields ==
    (/\ request.op = "update"
     /\ request.data.json = "object"
     /\ request.id \in Ids(before))
    => /\ response.status = 200
       /\ Len(POSTS) = Len(before)
       /\ \E k \in 1..Len(before) :
            /\ before[k].id = request.id
            /\ POSTS[k].id = request.id
            /\ POSTS[k].title =
                 IF request.data.title # Absent
                 THEN request.data.title ELSE before[k].title
            /\ POSTS[k].content =
                 IF request.data.content # Absent
                 THEN request.data.content ELSE before[k].content
            /\ \A j \in 1..Len(before) : j # k => POSTS[j] = before[j]
            /\ response.body = <<POSTS[k]>>

\* An Update answered 200 whose body held an empty title and no content, on
\* a post with a non-empty title that was not the first of several.
C6_Witness ==
    /\ request.op = "update"
    /\ response.status = 200
    /\ request.data.title = Str(<<>>)
    /\ request.data.content = Absent
    /\ \E k \in 2..Len(before) :
         /\ before[k].id = request.id
         /\ Truthy(before[k].title)
         /\ POSTS[k].title = Str(<<>>)
         /\ POSTS[k].content = before[k].content

\* The lower-cased value of a field, as the order of a sorted List compares it.
LowerField(post, field) == lower(post[field].val)

\* The posts of s are in the order of the lower-cased field: non-decreasing,
\* or non-increasing for desc.
Ordered(s, field, desc) ==
    \A i, j \in 1..Len(s) :
        i < j => IF desc
                 THEN ~StrLess(LowerField(s[i], field), LowerField(s[j], field))
                 ELSE ~StrLess(LowerField(s[j], field), LowerField(s[i], field))

Permutation(s, t) ==
    /\ Len(s) = Len(t)
    /\ \A i \in 1..Len(s) : Count(s, s[i]) = Count(t, s[i])

\* What C7 says of the request handled last.
SortedListHolds ==
    /\ (/\ request.op = "list"
        /\ request.a \in {Str(TITLE), Str(CONTENT)}
        /\ ~InvalidDirection(request.b))
       => /\ response.status = 200
          /\ Permutation(before, response.body)
          /\ Ordered(response.body,
                     IF request.a = Str(TITLE) THEN "title" ELSE "content",
                     request.b # None /\ lower(request.b.val) = DESC)
          /\ POSTS = response.body
    /\ (/\ request.op = "list"
        /\ request.a = None
        /\ ~InvalidDirection(request.b))
       => /\ response.status = 200
          /\ response.body = before
          /\ POSTS = before

\* C7: List with a valid sort and direction is answered 200 with the
\* collection permuted into the order of the lower-cased field (reversed for
\* desc); the stored list takes that order, and a List without sort returns
\* the stored order as it is.
C7_SortedList == SortedListHolds

AllStrings(posts) ==
    \A i \in 1..Len(posts) :
        posts[i].title.kind = "str" /\ posts[i].content.kind = "str"

\* C7 on the collections whose fields are all str.
C7_SortedListOfStrings == AllStrings(before) => SortedListHolds

\* A List by title, descending, answered 200 that reordered the collection.
C7_WitnessOfStrings ==
    /\ request.op = "list"
    /\ request.a = Str(TITLE)
    /\ request.b # None
    /\ response.status = 200
    /\ POSTS # before

Query(arg) == IF arg = None THEN <<>> ELSE lower(arg.val)

\* The post matches the queries of the Search handled last.
Matches(post) ==
    /\ \/ Query(request.a) = <<>>
       \/ /\ post.title.kind = "str"
          /\ StrIn(Query(request.a), lower(post.title.val))
    /\ \/ Query(request.b) = <<>>
       \/ /\ post.content.kind = "str"
          /\ StrIn(Query(request.b), lower(post.content.val))

\* What C8 says of the request handled last.
SearchHolds ==
    request.op = "search"
    => LET M == {i \in 1..Len(before) : Matches(before[i])}
       IN /\ response.status = 200
          /\ Len(response.body) = Cardinality(M)
          /\ \A i \in M :
               response.body[Cardinality({j \in M : j <= i})] = before[i]
          /\ POSTS = before

\* C8: Search is answered 200 with exactly the posts whose title and content
\* hold the queries (case-insensitively; an empty query holds for any post),
\* in the order of the collection, which it leaves as it was.
C8_SearchResult == SearchHolds

\* C8 on the collections whose fields are all str.
C8_SearchResultOfStrings == AllStrings(before) => SearchHolds

\* A Search with both queries answered 200 with some posts but not all.
C8_WitnessOfStrings ==
    /\ request.op = "search"
    /\ request.a # None /\ request.b # None
    /\ response.status = 200
    /\ Len(response.body) >= 1
    /\ Len(response.body) < Len(before)

\* C9: every stored post has a str title and a str content, so that List
\* with a valid sort and Search never fail.
C9_FieldsAreStrings ==
    /\ AllStrings(POSTS)
    /\ request.op \in {"list", "search"} => response.status # 500

\* C10: Creates whose steps interleave give their posts distinct ids: the
\* ids of the collection stay unique.
C10_DistinctIdsUnderInterleaving ==
    Cardinality(Ids(POSTS)) = Len(POSTS)
====
